---- MODULE Spec2Model ----
(***************************************************************************)
(* Model of the packaging pipeline of platform-os-tool.                    *)
(*                                                                         *)
(* Two commands are modelled: packageTool (src/commands/packageTool.ts,    *)
(* the revision-stamping pipeline) and buildTool (the earlier pipeline     *)
(* with a try/finally around build and bundle).  A run is one invocation   *)
(* of the command's async function on a Node process: the position of the  *)
(* async function is pc, the concurrent operations of build() and the      *)
(* stream events of bundle() are separate actions, and the file system is  *)
(* a function from paths to file contents.                                 *)
(*                                                                         *)
(* Strings that the code takes apart (version, name, revision) are         *)
(* sequences of one-character strings.                                     *)
(***************************************************************************)
EXTENDS Integers, Sequences, FiniteSets, TLC

(***************************************************************************)
(* Bounds of the model.                                                    *)
(***************************************************************************)
MaxVerLen == 5
MaxNameLen == 2
MaxRevLen == 1
MaxExit == 2
MaxClock == 25000
MaxGens == 2

(***************************************************************************)
(* Strings as character sequences.                                         *)
(***************************************************************************)
SeqsUpTo(S, n) == UNION {[1..k -> S] : k \in 0..n}

DOT == "."
SLASH == "/"
ZIP == <<".", "z", "i", "p">>

IndexOf(s, c) ==
  IF \E i \in 1..Len(s) : s[i] = c
    THEN CHOOSE i \in 1..Len(s) : s[i] = c /\ \A j \in 1..(i - 1) : s[j] # c
    ELSE 0

\* String.prototype.lastIndexOf, 1-based, 0 when absent (-1 in the source)
LastIndexOf(s, c) ==
  IF \E i \in 1..Len(s) : s[i] = c
    THEN CHOOSE i \in 1..Len(s) : s[i] = c /\ \A j \in (i + 1)..Len(s) : s[j] # c
    ELSE 0

\* String.prototype.split(".")
RECURSIVE Split(_)
Split(s) ==
  LET i == IndexOf(s, DOT)
  IN  IF i = 0 THEN <<s>>
      ELSE <<SubSeq(s, 1, i - 1)>> \o Split(SubSeq(s, i + 1, Len(s)))

\* an array slot never assigned (a hole); join() renders it as ""
Hole == <<"<hole>">>

\* the assignment lands on the second element instead of the third
SetIndex2_OffByOne(parts, r) ==
  [i \in 1..(IF Len(parts) > 2 THEN Len(parts) ELSE 2) |->
     IF i = 2 THEN r
     ELSE IF i <= Len(parts) THEN parts[i]
     ELSE Hole]

\* versionParts[2] = revision: an index past the end extends the array
SetIndex2(parts, r) ==
  [i \in 1..(IF Len(parts) > 3 THEN Len(parts) ELSE 3) |->
     IF i = 3 THEN r
     ELSE IF i <= Len(parts) THEN parts[i]
     ELSE Hole]

\* Array.prototype.join(".")
RECURSIVE Join(_)
Join(parts) ==
  IF Len(parts) = 0 THEN <<>>
  ELSE LET h == IF parts[1] = Hole THEN <<>> ELSE parts[1]
       IN  IF Len(parts) = 1 THEN h
           ELSE h \o <<DOT>> \o Join(Tail(parts))

\* String.prototype.replaceAll(".", "_")
ReplaceAll(s) == [i \in 1..Len(s) |-> IF s[i] = DOT THEN "_" ELSE s[i]]

\* replace() instead of replaceAll(): only the first "." becomes "_"
createName_ReplaceFirst(projectName, projectVersion) ==
  LET slashIndex == LastIndexOf(projectName, SLASH)
      baseName == IF slashIndex # 0
                    THEN SubSeq(projectName, slashIndex + 1, Len(projectName))
                    ELSE projectName
      firstDot == IndexOf(projectVersion, DOT)
  IN  baseName \o <<"-">>
        \o [i \in 1..Len(projectVersion) |->
              IF i = firstDot THEN "_" ELSE projectVersion[i]]
        \o ZIP

createName(projectName, projectVersion) ==
  LET slashIndex == LastIndexOf(projectName, SLASH)
      baseName == IF slashIndex # 0
                    THEN SubSeq(projectName, slashIndex + 1, Len(projectName))
                    ELSE projectName
  IN  baseName \o <<"-">> \o ReplaceAll(projectVersion) \o ZIP

\* buildTool's archive name: `${projectName}-${projectVersion}.zip`
plainName(projectName, projectVersion) ==
  projectName \o <<"-">> \o projectVersion \o ZIP

(***************************************************************************)
(* File system: a function from absolute paths (sequences of components)   *)
(* to contents.  Archives in the publish folder are kept in archives,      *)
(* keyed by their file name, because the name is a computed string.        *)
(***************************************************************************)
Cwd == <<"cwd">>
Folder == <<"demo">>
ProjectFolder == Cwd \o Folder
SrcFolder == ProjectFolder \o <<"src">>
ReadmeFile == ProjectFolder \o <<"README.md">>
PackageFile == ProjectFolder \o <<"package.json">>
PublishFolder == ProjectFolder \o <<"publish">>
TmpDir == <<"tmp">>
ScratchFile == TmpDir \o <<"package.tmp">>

Dir == [kind |-> "dir"]
Bytes(id) == [kind |-> "bytes", id |-> id]
Json(fmt, data) == [kind |-> "json", fmt |-> fmt, data |-> data]

IsPrefix(p, q) == Len(p) <= Len(q) /\ SubSeq(q, 1, Len(p)) = p
Restrict(f, S) == [x \in S |-> f[x]]
\* fs.rm(path, { recursive: true, force: true })
RmRecursive(f, p) == Restrict(f, {q \in DOMAIN f : ~IsPrefix(p, q)})
\* the files below a directory, by path relative to it
Children(f, d) ==
  [r \in {SubSeq(q, Len(d) + 1, Len(q)) :
            q \in {x \in DOMAIN f : IsPrefix(d, x) /\ x # d /\ f[x] # Dir}}
     |-> f[d \o r]]

\* the source tree of the project and what the compiler emits for it
SrcTree == {<<"index.ts">>, <<"icon.png">>, <<"data.json">>}
\* a source tree that also holds a file named package.json
SrcTreeWithManifest == SrcTree \cup {<<"package.json">>}
SrcTrees == {SrcTree, SrcTreeWithManifest}
Ext(rel) ==
  CASE rel = <<"index.ts">> -> "ts"
    [] rel = <<"icon.png">> -> "png"
    [] rel = <<"data.json">> -> "json"
    [] rel = <<"package.json">> -> "json"
    [] OTHER -> "none"
\* the files below src/
SrcFiles(f) == {r \in SrcTreeWithManifest : SrcFolder \o r \in DOMAIN f}
TscOutputs == {<<"index.js">>, <<"index.d.ts">>, <<"index.js.map">>}

Tools == {"packageTool", "buildTool"}
ASSET_PATTERNS == {"png", "svg", "json"}

\* where copyfiles puts a matched file below the destination folder:
\* packageTool passes { up: 1 } on the path join(srcFolder, pattern), with
\* srcFolder relative as given on the command line; buildTool passes
\* { up: true }, which flattens to the base name.
CopyDest(t, rel) ==
  IF t = "packageTool"
    THEN Tail(Folder \o <<"src">> \o rel)
    ELSE <<rel[Len(rel)]>>

\* the files of src/ an asset pattern matches
Matched(f, task) == {r \in SrcFiles(f) : Ext(r) = task}

\* the paths below the staging directory an operation of build() writes
Targets(f, t, task) ==
  CASE task = "tsc" -> TscOutputs
    [] task = "package" -> {<<"package.json">>}
    [] task = "readme" -> {<<"README.md">>}
    [] OTHER -> {CopyDest(t, r) : r \in Matched(f, task)}

(***************************************************************************)
(* Inputs of a run.                                                        *)
(***************************************************************************)
VerChars == {"1", DOT}
NameChars == {"d", SLASH}
RevChars == {"r", DOT}
Versions == SeqsUpTo(VerChars, MaxVerLen)
Names == SeqsUpTo(NameChars, MaxNameLen) \ {<<>>}
Revisions == SeqsUpTo(RevChars, MaxRevLen) \ {<<>>}
\* the close event's code: a status, or null when a signal ended the child
NullCode == -1
\* no close event seen yet
NoCode == -2
CloseCodes == (0..MaxExit) \cup {NullCode}

(***************************************************************************)
(* The generated revision.  Date.now() is OriginTick * 10000 + now: the    *)
(* clock is counted from the start of a 10-second tick of November 2026,   *)
(* so that its values stay small.                                          *)
(***************************************************************************)
OriginTick == 179400000
RevisionOffset == 175200000
TickMs == 10000

DigitChar(d) == <<"0", "1", "2", "3", "4", "5", "6", "7", "8", "9">>[d + 1]
\* the decimal text a template literal renders for an integer
RECURSIVE ToDigits(_)
ToDigits(n) ==
  IF n < 0 THEN <<"-">> \o ToDigits(0 - n)
  ELSE IF n < 10 THEN <<DigitChar(n)>>
  ELSE ToDigits(n \div 10) \o <<DigitChar(n % 10)>>

DEV == <<"-", "d", "e", "v">>

\* the clock divided by 100 seconds
devRevisionNumber_CoarseTick(t) ==
  (OriginTick + (t \div (TickMs * 10))) - RevisionOffset

\* Math.floor(Date.now() / 10_000) - 175200000
devRevisionNumber(t) ==
  (OriginTick + (t \div TickMs)) - RevisionOffset

\* `${...}-dev`
generateDevRevision(t) ==
  ToDigits(devRevisionNumber(t)) \o DEV

\* the manifests of the runs: a base manifest with one field varied at a
\* time (the name is read by the archive naming only, the version by the
\* stamping and the archive naming), and the base manifest without a version
BaseName == <<"d">>
BaseVersion == <<"1", ".", "1", ".", "1">>
BaseRevision == <<"r">>
Manifests ==
  {[name |-> n, version |-> BaseVersion, main |-> <<"m">>] : n \in Names}
  \cup {[name |-> BaseName, version |-> v, main |-> <<"m">>] : v \in Versions}
  \cup {[name |-> BaseName, main |-> <<"m">>]}
BaseManifest == [name |-> BaseName, version |-> BaseVersion, main |-> <<"m">>]

\* the text "undefined" that a template literal renders for a missing field
Undefined == <<"undefined">>
Field(data, k) == IF k \in DOMAIN data THEN data[k] ELSE Undefined

VARIABLES
  tool,          \* which command runs
  revision,      \* options.revision (packageTool)
  pc,            \* position of the command's async function
  exitCode,      \* process exit status once pc = "exited"
  fs,            \* path -> content
  archives,      \* archive file name -> content, inside PublishFolder
  fs0,           \* fs when the run started
  archives0,     \* archives when the run started
  packageFile,   \* local packageFile of the command
  name,          \* local name read from the manifest
  version,       \* local version read from the manifest
  buildFolder,   \* the staging directory path, <<>> before mkdtemp
  tsc,           \* compiler promise: idle, running, resolved, rejected
  tscCode,       \* code of the compiler's close event, NoCode before it
  copies,        \* concurrent copy operations of build(): task -> status
  bundleFile,    \* archive file name computed by bundle(), <<>> before
  existedAtOpen, \* "yes"/"no": bundleFile existed when the stream was opened
  output,        \* write stream: none, open, closed, errored
  archive,       \* archiver: none, writing, ended, errored
  thrown,        \* an exception is propagating through buildTool's finally
  rmCalls,       \* number of fs.rm calls on the staging directory
  report,        \* the success message written, NoReport before
  now,           \* Date.now(), in ms after the start of the tick OriginTick
  gens           \* the calls of generateDevRevision made so far

vars == <<now, gens, tool, revision, pc, exitCode, fs, archives, fs0, archives0,
          packageFile, name, version, buildFolder, tsc, tscCode, copies,
          bundleFile, existedAtOpen, output, archive, thrown, rmCalls, report>>

\* the copy operations build() starts next to the compiler
CopyTasks(t) ==
  (IF t = "packageTool" THEN {"package", "readme"} ELSE {"package"})
  \cup ASSET_PATTERNS

StagingPath(t) ==
  IF t = "packageTool" THEN TmpDir \o <<"build-x">> ELSE Cwd \o <<"build-x">>

\* the archive name a run with these inputs produces
ArchiveNameFor(t, data, rev) ==
  IF t = "packageTool"
    THEN createName(data.name, Join(SetIndex2(Split(data.version), rev)))
    ELSE plainName(data.name, Field(data, "version"))

NoReport == [written |-> FALSE, name |-> <<>>, version |-> <<>>, file |-> <<>>]

\* an archive of another project in the same publish folder
OtherArchive == <<"o">> \o ZIP
StaleArchive == [entries |-> (<<"stale.js">> :> Bytes("stale")), complete |-> TRUE]

\* the project folder before the run: each required path present or not,
\* and either no publish folder yet or the publish folder of an earlier run
ProjectTrees ==
  LET src(tree) == [p \in {SrcFolder} \cup {SrcFolder \o r : r \in tree} |->
                      IF p = SrcFolder THEN Dir ELSE Bytes(p[Len(p)])]
      base == (Cwd :> Dir) @@ (TmpDir :> Dir)
  IN  {base} \cup
      {base @@ (ProjectFolder :> Dir) @@ s @@ r @@ m @@ pub :
         s \in {<<>>} \cup {src(tree) : tree \in SrcTrees},
         r \in {<<>>, ReadmeFile :> Bytes("readme")},
         m \in {<<>>} \cup {PackageFile :> Json("spaces", d) : d \in Manifests},
         pub \in {<<>>, PublishFolder :> Dir}}

\* an earlier run with the same inputs left its archive in the publish folder
EarlierArchives(t, f, rev) ==
  IF PublishFolder \in DOMAIN f /\ PackageFile \in DOMAIN f
     /\ (t = "packageTool" => "version" \in DOMAIN f[PackageFile].data)
    THEN (ArchiveNameFor(t, f[PackageFile].data, rev) :> StaleArchive)
           @@ (OtherArchive :> StaleArchive)
    ELSE <<>>

\* the clock advances between two calls by a bit less than half a tick,
\* half a tick, or a bit more
ClockSteps == {TickMs \div 2 - 1, TickMs \div 2, TickMs \div 2 + 1}

Init ==
  /\ now = 0
  /\ gens = <<>>
  /\ tool \in Tools
  /\ revision \in Revisions \cup {generateDevRevision(now)}
  /\ fs \in ProjectTrees
  /\ revision # BaseRevision =>
       /\ tool = "packageTool"
       /\ PackageFile \in DOMAIN fs
       /\ fs[PackageFile].data = BaseManifest
  /\ SrcFolder \o <<"package.json">> \in DOMAIN fs =>
       /\ revision = BaseRevision
       /\ PackageFile \in DOMAIN fs
       /\ fs[PackageFile].data = BaseManifest
  /\ archives = EarlierArchives(tool, fs, revision)
  /\ fs0 = fs
  /\ archives0 = archives
  /\ pc = "checkProject"
  /\ exitCode = -1
  /\ packageFile = <<>>
  /\ name = <<>>
  /\ version = <<>>
  /\ buildFolder = <<>>
  /\ tsc = "idle"
  /\ tscCode = NoCode
  /\ copies = [t \in CopyTasks(tool) |-> "idle"]
  /\ bundleFile = <<>>
  /\ existedAtOpen = "n/a"
  /\ output = "none"
  /\ archive = "none"
  /\ thrown = FALSE
  /\ rmCalls = 0
  /\ report = NoReport

(***************************************************************************)
(* How the process ends.                                                   *)
(***************************************************************************)
\* process.exit(code): null leaves the exit status at its default, 0
ExitStatus(code) == IF code = NullCode THEN 0 ELSE code
\* Node ends a process with status 1 on an unhandled rejection or an
\* uncaught exception; nothing in the entry files catches either
UncaughtStatus == 1

Exit(code) == pc' = "exited" /\ exitCode' = code

\* an awaited promise rejects inside the command: packageTool has no
\* handler, so the rejection is unhandled; buildTool is inside try and
\* goes to its finally block
Rejected ==
  IF tool = "buildTool"
    THEN pc' = "finally" /\ thrown' = TRUE /\ exitCode' = exitCode
    ELSE Exit(UncaughtStatus) /\ thrown' = thrown

(***************************************************************************)
(* Precondition checks.                                                    *)
(***************************************************************************)
exists(path) == path \in DOMAIN fs

CheckProject ==
  /\ pc = "checkProject"
  /\ IF exists(ProjectFolder)
       THEN pc' = "checkSrc" /\ exitCode' = exitCode
       ELSE Exit(1)
  /\ UNCHANGED <<now, gens, tool, revision, fs, archives, fs0, archives0, packageFile,
                 name, version, buildFolder, tsc, tscCode, copies, bundleFile,
                 existedAtOpen, output, archive, thrown, rmCalls, report>>

\* the check of the src folder is skipped
CheckSrc_NoCheck ==
  /\ pc = "checkSrc"
  /\ pc' = IF tool = "packageTool" THEN "checkReadme" ELSE "checkPackage"
  /\ UNCHANGED <<now, gens, tool, revision, exitCode, fs, archives, fs0, archives0,
                 packageFile, name, version, buildFolder, tsc, tscCode, copies,
                 bundleFile, existedAtOpen, output, archive, thrown, rmCalls,
                 report>>

CheckSrc ==
  /\ pc = "checkSrc"
  /\ IF exists(SrcFolder)
       THEN /\ pc' = IF tool = "packageTool" THEN "checkReadme" ELSE "checkPackage"
            /\ exitCode' = exitCode
       ELSE Exit(1)
  /\ UNCHANGED <<now, gens, tool, revision, fs, archives, fs0, archives0, packageFile,
                 name, version, buildFolder, tsc, tscCode, copies, bundleFile,
                 existedAtOpen, output, archive, thrown, rmCalls, report>>

CheckReadme ==
  /\ pc = "checkReadme"
  /\ IF exists(ReadmeFile)
       THEN pc' = "checkPackage" /\ exitCode' = exitCode
       ELSE Exit(1)
  /\ UNCHANGED <<now, gens, tool, revision, fs, archives, fs0, archives0, packageFile,
                 name, version, buildFolder, tsc, tscCode, copies, bundleFile,
                 existedAtOpen, output, archive, thrown, rmCalls, report>>

CheckPackage ==
  /\ pc = "checkPackage"
  /\ IF exists(PackageFile)
       THEN /\ pc' = IF tool = "packageTool" THEN "prepare" ELSE "readPackage"
            /\ exitCode' = exitCode
            /\ packageFile' = PackageFile
       ELSE Exit(1) /\ packageFile' = packageFile
  /\ UNCHANGED <<now, gens, tool, revision, fs, archives, fs0, archives0,
                 name, version, buildFolder, tsc, tscCode, copies, bundleFile,
                 existedAtOpen, output, archive, thrown, rmCalls, report>>

(***************************************************************************)
(* Version stamping.                                                       *)
(***************************************************************************)
readPackage(f, path) == f[path].data

\* JSON.stringify(packageData, null, "\t") + "\n"
writePackage(f, path, data) == (path :> Json("tabs", data)) @@ f

\* { ...pkg, version: revisedProjectVersion }
WithVersion(pkg, v) ==
  [k \in DOMAIN pkg \cup {"version"} |-> IF k = "version" THEN v ELSE pkg[k]]

revisedProjectVersion(v, rev) == Join(SetIndex2(Split(v), rev))

\* the stamped manifest is written back to the path it was read from
prepareVersionedPackage_InPlace ==
  /\ pc = "prepare"
  /\ LET pkg == readPackage(fs, packageFile)
     IN  IF "version" \in DOMAIN pkg
           THEN /\ fs' = writePackage(fs, packageFile,
                           WithVersion(pkg, revisedProjectVersion(pkg.version, revision)))
                /\ pc' = "readPackage"
                /\ exitCode' = exitCode
           ELSE /\ Exit(UncaughtStatus)
                /\ fs' = fs
  /\ UNCHANGED <<now, gens, tool, revision, archives, fs0, archives0, packageFile,
                 name, version, buildFolder, tsc, tscCode, copies, bundleFile,
                 existedAtOpen, output, archive, thrown, rmCalls, report>>

prepareVersionedPackage ==
  /\ pc = "prepare"
  /\ LET pkg == readPackage(fs, packageFile)
     IN  IF "version" \in DOMAIN pkg
           THEN /\ fs' = writePackage(fs, ScratchFile,
                           WithVersion(pkg, revisedProjectVersion(pkg.version, revision)))
                /\ packageFile' = ScratchFile
                /\ pc' = "readPackage"
                /\ exitCode' = exitCode
           ELSE \* pkg.version.split throws a TypeError
                /\ Exit(UncaughtStatus)
                /\ UNCHANGED <<fs, packageFile>>
  /\ UNCHANGED <<now, gens, tool, revision, archives, fs0, archives0,
                 name, version, buildFolder, tsc, tscCode, copies, bundleFile,
                 existedAtOpen, output, archive, thrown, rmCalls, report>>

ReadPackage ==
  /\ pc = "readPackage"
  /\ LET pkg == readPackage(fs, packageFile)
     IN  /\ name' = Field(pkg, "name")
         /\ version' = Field(pkg, "version")
  /\ pc' = "mkdirPublish"
  /\ UNCHANGED <<now, gens, tool, revision, exitCode, fs, archives, fs0, archives0,
                 packageFile, buildFolder, tsc, tscCode, copies, bundleFile,
                 existedAtOpen, output, archive, thrown, rmCalls, report>>

\* fs.mkdir(publishFolder, { recursive: true })
MkdirPublish ==
  /\ pc = "mkdirPublish"
  /\ fs' = IF exists(PublishFolder) THEN fs ELSE (PublishFolder :> Dir) @@ fs
  /\ pc' = "mkdtemp"
  /\ UNCHANGED <<now, gens, tool, revision, exitCode, archives, fs0, archives0,
                 packageFile, name, version, buildFolder, tsc, tscCode, copies,
                 bundleFile, existedAtOpen, output, archive, thrown, rmCalls,
                 report>>

(***************************************************************************)
(* build(): the staging directory, the compiler and the concurrent copies. *)
(***************************************************************************)
\* fs.mkdtemp: packageTool below os.tmpdir(), buildTool below the cwd
createTempFolder ==
  /\ pc = "mkdtemp"
  /\ buildFolder' = StagingPath(tool)
  /\ fs' = (StagingPath(tool) :> Dir) @@ fs
  /\ pc' = "launch"
  /\ UNCHANGED <<now, gens, tool, revision, exitCode, archives, fs0, archives0,
                 packageFile, name, version, tsc, tscCode, copies,
                 bundleFile, existedAtOpen, output, archive, thrown, rmCalls,
                 report>>

\* the compiler is spawned and every copy is started before the first await
Launch ==
  /\ pc = "launch"
  /\ tsc' = "running"
  /\ copies' = [t \in DOMAIN copies |-> "pending"]
  /\ pc' = "awaitAll"
  /\ UNCHANGED <<now, gens, tool, revision, exitCode, fs, archives, fs0, archives0,
                 packageFile, name, version, buildFolder, tscCode,
                 bundleFile, existedAtOpen, output, archive, thrown, rmCalls,
                 report>>

\* tsc writes its outputs when it exits 0 (clean) or 2 (errors, outputs kept)
Emitted(f, code) ==
  IF code \in {0, 2}
    THEN [p \in {buildFolder} \cup {buildFolder \o o : o \in TscOutputs} |->
            IF p = buildFolder THEN Dir ELSE Bytes(p[Len(p)])] @@ f
    ELSE f

\* the close handler resolves whatever the code is
TscClose_ResolveAlways ==
  /\ pc # "exited"
  /\ tsc = "running"
  /\ \E code \in CloseCodes :
       /\ tscCode' = code
       /\ fs' = Emitted(fs, code)
       /\ tsc' = "resolved"
  /\ UNCHANGED <<now, gens, tool, revision, pc, exitCode, thrown, archives, fs0,
                 archives0, packageFile, name, version, buildFolder, copies,
                 bundleFile, existedAtOpen, output, archive, rmCalls, report>>

\* the compiler's "close" event
TscClose ==
  /\ pc # "exited"
  /\ tsc = "running"
  /\ \E code \in CloseCodes :
       /\ tscCode' = code
       /\ fs' = Emitted(fs, code)
       /\ IF code = 0
            THEN tsc' = "resolved" /\ UNCHANGED <<pc, exitCode, thrown>>
            ELSE IF tool = "packageTool"
              THEN \* process.exit(code)
                   Exit(ExitStatus(code)) /\ UNCHANGED <<tsc, thrown>>
              ELSE \* execa rejects its promise
                   /\ tsc' = "rejected"
                   /\ IF pc = "awaitAll" THEN Rejected
                      ELSE UNCHANGED <<pc, exitCode, thrown>>
  /\ UNCHANGED <<now, gens, tool, revision, archives, fs0, archives0, packageFile, name,
                 version, buildFolder, copies, bundleFile, existedAtOpen,
                 output, archive, rmCalls, report>>

\* the compiler's "error" event: the child could not be spawned
TscError ==
  /\ pc # "exited"
  /\ tsc = "running"
  /\ IF tool = "packageTool"
       THEN Exit(1) /\ UNCHANGED <<tsc, thrown>>
       ELSE /\ tsc' = "rejected"
            /\ IF pc = "awaitAll" THEN Rejected
               ELSE UNCHANGED <<pc, exitCode, thrown>>
  /\ UNCHANGED <<now, gens, tool, revision, fs, archives, fs0, archives0, packageFile,
                 name, version, buildFolder, tscCode, copies, bundleFile,
                 existedAtOpen, output, archive, rmCalls, report>>

\* what a finished copy operation has written
Copied(f, task) ==
  CASE task = "package" -> (buildFolder \o <<"package.json">> :> f[packageFile]) @@ f
    [] task = "readme" -> (buildFolder \o <<"README.md">> :> f[ReadmeFile]) @@ f
    [] OTHER ->
         [p \in {buildFolder \o d : d \in Targets(f, tool, task)} |->
            f[SrcFolder \o
                (CHOOSE r \in Matched(f, task) :
                   buildFolder \o CopyDest(tool, r) = p)]] @@ f

\* fs.copyFile / copyfiles completes
CopyResolve(task) ==
  /\ pc # "exited"
  /\ copies[task] = "pending"
  /\ exists(buildFolder)
  /\ copies' = [copies EXCEPT ![task] = "ok"]
  /\ fs' = Copied(fs, task)
  /\ UNCHANGED <<now, gens, tool, revision, pc, exitCode, archives, fs0, archives0,
                 packageFile, name, version, buildFolder, tsc, tscCode,
                 bundleFile, existedAtOpen, output, archive, thrown, rmCalls,
                 report>>

\* fs.copyFile / copyfiles fails: Promise.all rejects on the first failure
CopyReject(task) ==
  /\ pc # "exited"
  /\ copies[task] = "pending"
  /\ copies' = [copies EXCEPT ![task] = "failed"]
  /\ IF pc = "awaitAll" THEN Rejected ELSE UNCHANGED <<pc, exitCode, thrown>>
  /\ UNCHANGED <<now, gens, tool, revision, fs, archives, fs0, archives0,
                 packageFile, name, version, buildFolder, tsc, tscCode,
                 bundleFile, existedAtOpen, output, archive, rmCalls, report>>

\* build() returns as soon as the compiler has closed
BuildReturns_TscOnly ==
  /\ pc = "awaitAll"
  /\ tsc = "resolved"
  /\ pc' = "bundle"
  /\ UNCHANGED <<now, gens, tool, revision, exitCode, fs, archives, fs0, archives0,
                 packageFile, name, version, buildFolder, tsc, tscCode, copies,
                 bundleFile, existedAtOpen, output, archive, thrown, rmCalls,
                 report>>

\* Promise.all resolves: build() returns and bundle() is called
BuildReturns ==
  /\ pc = "awaitAll"
  /\ tsc = "resolved"
  /\ \A t \in DOMAIN copies : copies[t] = "ok"
  /\ pc' = "bundle"
  /\ UNCHANGED <<now, gens, tool, revision, exitCode, fs, archives, fs0, archives0,
                 packageFile, name, version, buildFolder, tsc, tscCode, copies,
                 bundleFile, existedAtOpen, output, archive, thrown, rmCalls,
                 report>>

(***************************************************************************)
(* bundle(): the archive.                                                  *)
(***************************************************************************)
archiveName ==
  IF tool = "packageTool" THEN createName(name, version) ELSE plainName(name, version)

\* the existing archive is not deleted
BundleRm_Skip ==
  /\ pc = "bundle"
  /\ bundleFile' = archiveName
  /\ pc' = "open"
  /\ UNCHANGED <<now, gens, tool, revision, exitCode, fs, archives, fs0, archives0,
                 packageFile, name, version, buildFolder, tsc, tscCode, copies,
                 existedAtOpen, output, archive, thrown, rmCalls, report>>

\* if (await exists(bundleFile)) await fs.rm(bundleFile)
BundleRm ==
  /\ pc = "bundle"
  /\ bundleFile' = archiveName
  /\ archives' = Restrict(archives, DOMAIN archives \ {archiveName})
  /\ pc' = "open"
  /\ UNCHANGED <<now, gens, tool, revision, exitCode, fs, fs0, archives0,
                 packageFile, name, version, buildFolder, tsc, tscCode, copies,
                 existedAtOpen, output, archive, thrown, rmCalls, report>>

\* createWriteStream, archiver(), pipe, directory and the call of finalize
BundleOpen ==
  /\ pc = "open"
  /\ existedAtOpen' = IF bundleFile \in DOMAIN archives THEN "yes" ELSE "no"
  /\ archives' = (bundleFile :> [entries |-> <<>>, complete |-> FALSE]) @@ archives
  /\ output' = "open"
  /\ archive' = "writing"
  /\ pc' = "awaitFinalize"
  /\ UNCHANGED <<now, gens, tool, revision, exitCode, fs, fs0, archives0,
                 packageFile, name, version, buildFolder, tsc, tscCode, copies,
                 bundleFile, thrown, rmCalls, report>>

\* bundle() returns as soon as finalize() resolves
FinalizeResolves_Returns ==
  /\ pc = "awaitFinalize"
  /\ archive = "writing"
  /\ output = "open"
  /\ archive' = "ended"
  /\ archives' = [archives EXCEPT ![bundleFile].entries = Children(fs, buildFolder)]
  /\ pc' = IF tool = "packageTool" THEN "rmBuild" ELSE "finally"
  /\ UNCHANGED <<now, gens, tool, revision, exitCode, fs, fs0, archives0,
                 packageFile, name, version, buildFolder, tsc, tscCode, copies,
                 bundleFile, existedAtOpen, output, thrown, rmCalls, report>>

\* the archiver has written every entry: finalize() resolves and bundle()
\* registers its close and error listeners on the output stream
FinalizeResolves ==
  /\ pc = "awaitFinalize"
  /\ archive = "writing"
  /\ output = "open"
  /\ archive' = "ended"
  /\ archives' = [archives EXCEPT ![bundleFile].entries = Children(fs, buildFolder)]
  /\ pc' = "awaitClose"
  /\ UNCHANGED <<now, gens, tool, revision, exitCode, fs, fs0, archives0,
                 packageFile, name, version, buildFolder, tsc, tscCode, copies,
                 bundleFile, existedAtOpen, output, thrown, rmCalls, report>>

\* the output stream's "close" event finds no listener
OutputClose_Unheard ==
  /\ pc = "awaitClose"
  /\ output = "open"
  /\ archive = "ended"
  /\ output' = "closed"
  /\ archives' = [archives EXCEPT ![bundleFile].complete = TRUE]
  /\ UNCHANGED <<now, gens, tool, revision, pc, exitCode, fs, fs0, archives0,
                 packageFile, name, version, buildFolder, tsc, tscCode, copies,
                 bundleFile, existedAtOpen, archive, thrown, rmCalls, report>>

\* the output stream's "close" event resolves the promise bundle() awaits
OutputClose ==
  /\ pc = "awaitClose"
  /\ output = "open"
  /\ archive = "ended"
  /\ output' = "closed"
  /\ archives' = [archives EXCEPT ![bundleFile].complete = TRUE]
  /\ pc' = IF tool = "packageTool" THEN "rmBuild" ELSE "finally"
  /\ UNCHANGED <<now, gens, tool, revision, exitCode, fs, fs0, archives0,
                 packageFile, name, version, buildFolder, tsc, tscCode, copies,
                 bundleFile, existedAtOpen, archive, thrown, rmCalls, report>>

\* the listener of the archiver's "error" event does not rethrow
ArchiveError_Swallowed ==
  /\ pc \in {"awaitFinalize", "awaitClose"}
  /\ archive \in {"writing", "ended"}
  /\ output = "open"
  /\ archive' = "errored"
  /\ UNCHANGED <<now, gens, tool, revision, pc, exitCode, fs, archives, fs0,
                 archives0, packageFile, name, version, buildFolder, tsc,
                 tscCode, copies, bundleFile, existedAtOpen, output, thrown,
                 rmCalls, report>>

\* the archiver's "error" event, while finalize() is pending or after it: the
\* listener rethrows inside the emitter, which is an uncaught exception
ArchiveError ==
  /\ pc \in {"awaitFinalize", "awaitClose"}
  /\ archive \in {"writing", "ended"}
  /\ output = "open"
  /\ archive' = "errored"
  /\ Exit(UncaughtStatus)
  /\ UNCHANGED <<now, gens, tool, revision, fs, archives, fs0, archives0,
                 packageFile, name, version, buildFolder, tsc, tscCode, copies,
                 bundleFile, existedAtOpen, output, thrown, rmCalls, report>>

\* the output stream's "error" event: rejects the awaited promise once the
\* listener is registered, and is an unhandled error event before that
OutputError ==
  /\ pc \in {"awaitFinalize", "awaitClose"}
  /\ output = "open"
  /\ output' = "errored"
  /\ IF pc = "awaitClose" THEN Rejected
     ELSE Exit(UncaughtStatus) /\ thrown' = thrown
  /\ UNCHANGED <<now, gens, tool, revision, fs, archives, fs0, archives0,
                 packageFile, name, version, buildFolder, tsc, tscCode, copies,
                 bundleFile, existedAtOpen, archive, rmCalls, report>>

(***************************************************************************)
(* The end of the run.                                                     *)
(***************************************************************************)
\* packageTool: await fs.rm(buildFolder, { recursive: true, force: true })
RmBuild ==
  /\ pc = "rmBuild"
  /\ fs' = RmRecursive(fs, buildFolder)
  /\ rmCalls' = rmCalls + 1
  /\ pc' = "report"
  /\ UNCHANGED <<now, gens, tool, revision, exitCode, archives, fs0, archives0,
                 packageFile, name, version, buildFolder, tsc, tscCode, copies,
                 bundleFile, existedAtOpen, output, archive, thrown, report>>

\* packageTool: the success message; the process then ends with status 0
Report ==
  /\ pc = "report"
  /\ report' = [written |-> TRUE, name |-> name, version |-> version,
                file |-> bundleFile]
  /\ Exit(0)
  /\ UNCHANGED <<now, gens, tool, revision, fs, archives, fs0, archives0,
                 packageFile, name, version, buildFolder, tsc, tscCode, copies,
                 bundleFile, existedAtOpen, output, archive, thrown, rmCalls>>

\* buildTool: the finally block, then the run ends (status 1 when the
\* rejection that entered the block goes unhandled)
Finally ==
  /\ pc = "finally"
  /\ fs' = RmRecursive(fs, buildFolder)
  /\ rmCalls' = rmCalls + 1
  /\ Exit(IF thrown THEN UncaughtStatus ELSE 0)
  /\ UNCHANGED <<now, gens, tool, revision, archives, fs0, archives0,
                 packageFile, name, version, buildFolder, tsc, tscCode, copies,
                 bundleFile, existedAtOpen, output, archive, thrown, report>>

Next ==
  \/ CheckProject
  \/ CheckSrc
  \/ CheckReadme
  \/ CheckPackage
  \/ prepareVersionedPackage
  \/ ReadPackage
  \/ MkdirPublish
  \/ createTempFolder
  \/ Launch
  \/ TscClose
  \/ TscError
  \/ \E task \in DOMAIN copies : CopyResolve(task)
  \/ \E task \in DOMAIN copies : CopyReject(task)
  \/ BuildReturns
  \/ BundleRm
  \/ BundleOpen
  \/ FinalizeResolves
  \/ OutputClose
  \/ ArchiveError
  \/ OutputError
  \/ RmBuild
  \/ Report
  \/ Finally

Spec == Init /\ [][Next]_vars

(***************************************************************************)
(* The same runs with the event loop's scheduling: a settled promise has   *)
(* its continuation run, and an output stream whose source has ended gets  *)
(* closed, unless an error event comes first.  Error events, the           *)
(* compiler's close and the copies' completion come from outside the       *)
(* process and may never happen.                                           *)
(***************************************************************************)
FairSpec ==
  /\ Spec
  /\ WF_vars(FinalizeResolves)
  /\ WF_vars(OutputClose)
  /\ WF_vars(RmBuild)
  /\ WF_vars(Report)
  /\ WF_vars(Finally)

(***************************************************************************)
(* The generated revision over time: calls of generateDevRevision with the *)
(* clock advancing between them.  No run of a command is under way.        *)
(***************************************************************************)
InitRev ==
  /\ now = 0
  /\ gens = <<>>
  /\ tool = "packageTool"
  /\ revision = BaseRevision
  /\ fs = (Cwd :> Dir) @@ (TmpDir :> Dir)
  /\ archives = <<>>
  /\ fs0 = fs
  /\ archives0 = archives
  /\ pc = "checkProject"
  /\ exitCode = -1
  /\ packageFile = <<>>
  /\ name = <<>>
  /\ version = <<>>
  /\ buildFolder = <<>>
  /\ tsc = "idle"
  /\ tscCode = NoCode
  /\ copies = [t \in CopyTasks(tool) |-> "idle"]
  /\ bundleFile = <<>>
  /\ existedAtOpen = "n/a"
  /\ output = "none"
  /\ archive = "none"
  /\ thrown = FALSE
  /\ rmCalls = 0
  /\ report = NoReport

AdvanceClock ==
  /\ \E d \in ClockSteps :
       /\ now + d <= MaxClock
       /\ now' = now + d
  /\ UNCHANGED <<gens, tool, revision, pc, exitCode, fs, archives, fs0,
                 archives0, packageFile, name, version, buildFolder, tsc,
                 tscCode, copies, bundleFile, existedAtOpen, output, archive,
                 thrown, rmCalls, report>>

\* const { revision = generateDevRevision() } = options, with no revision given
GenerateRevision ==
  /\ Len(gens) < MaxGens
  /\ gens' = Append(gens, [t |-> now, number |-> devRevisionNumber(now),
                           revision |-> generateDevRevision(now)])
  /\ UNCHANGED <<now, tool, revision, pc, exitCode, fs, archives, fs0,
                 archives0, packageFile, name, version, buildFolder, tsc,
                 tscCode, copies, bundleFile, existedAtOpen, output, archive,
                 thrown, rmCalls, report>>

NextRev ==
  \/ AdvanceClock
  \/ GenerateRevision

SpecRev == InitRev /\ [][NextRev]_vars

TypeOK ==
  /\ tool \in Tools
  /\ exitCode \in {-1} \cup (0..MaxExit)
  /\ pc = "exited" <=> exitCode # -1

(***************************************************************************)
(* Properties.                                                             *)
(***************************************************************************)
RequiredPaths(t) ==
  {ProjectFolder, SrcFolder, PackageFile}
  \cup (IF t = "packageTool" THEN {ReadmeFile} ELSE {})
MissingRequired == \E p \in RequiredPaths(tool) : p \notin DOMAIN fs0

\* bundle() has returned to the command
BundleReturned ==
  \/ pc \in {"rmBuild", "report"}
  \/ report.written
  \/ tool = "buildTool" /\ pc = "finally" /\ ~thrown
  \/ tool = "buildTool" /\ pc = "exited" /\ exitCode = 0
BundleStarted == pc \in {"bundle", "open", "awaitFinalize", "awaitClose"}

\* C1: once the staging directory has been created, it is gone when the run
\* has ended, whatever the exit path.
C1_StagingRemovedAtExit ==
  (pc = "exited" /\ buildFolder # <<>>) => buildFolder \notin DOMAIN fs

\* C2: a run started with a required path missing never changes the file
\* system (no scratch manifest, publish folder, staging directory or
\* archive), never gets past the checks, and ends with status 1.
C2_PreconditionBeforeMutation ==
  MissingRequired =>
    /\ fs = fs0
    /\ archives = archives0
    /\ pc \in {"checkProject", "checkSrc", "checkReadme", "checkPackage", "exited"}
    /\ pc = "exited" => exitCode = 1

C2_Witness ==
  /\ pc = "exited"
  /\ ProjectFolder \in DOMAIN fs0
  /\ SrcFolder \notin DOMAIN fs0
  /\ ReadmeFile \in DOMAIN fs0
  /\ PackageFile \in DOMAIN fs0

\* C3: after the compiler has closed with a status other than 0, build()
\* has not returned, bundle() has not started and the archives of the
\* publish folder are what they were when the run started.
C3_NoArchiveAfterCompilerFailure ==
  (tscCode # NoCode /\ tscCode # 0) =>
    /\ ~BundleStarted
    /\ ~BundleReturned
    /\ bundleFile = <<>>
    /\ output = "none"
    /\ archives = archives0

C3_Witness ==
  /\ tscCode = 2
  /\ \A t \in DOMAIN copies : copies[t] = "ok"
  /\ pc = "exited"

\* C4: the exit status is 0 after the success path, 1 after a failed
\* precondition, the compiler's close status c when c is not 0, and never 0
\* after a compiler close whose status is not 0.
C4_ExitStatus ==
  pc = "exited" =>
    /\ MissingRequired => exitCode = 1
    /\ (output = "closed" /\ buildFolder \notin DOMAIN fs) => exitCode = 0
    /\ tscCode \in 1..MaxExit => exitCode = tscCode
    /\ (tscCode # NoCode /\ tscCode # 0) => exitCode # 0

\* C5: bundle() has returned only if the output stream has emitted close;
\* while the archiver has ended and the stream is still open, bundle() is
\* still waiting.
C5_ReturnOnlyAfterClose ==
  /\ BundleReturned => output = "closed"
  /\ (archive = "ended" /\ output = "open") => pc = "awaitClose"

C5_Witness ==
  /\ pc = "rmBuild"
  /\ archive = "ended"
  /\ output = "closed"

\* C6: when the archive of an earlier run is at the destination, the stream
\* is opened on a path where no file exists, and the finished archive holds
\* exactly the files of this run's staging directory and none of the older
\* entries.
C6_OverwriteNotAppend ==
  /\ existedAtOpen # "yes"
  /\ (bundleFile # <<>> /\ bundleFile \in DOMAIN archives0 /\ output = "closed") =>
       /\ DOMAIN archives[bundleFile].entries
            \cap DOMAIN archives0[bundleFile].entries = {}
       /\ buildFolder \in DOMAIN fs =>
            archives[bundleFile].entries = Children(fs, buildFolder)

C6_Witness ==
  /\ bundleFile # <<>>
  /\ bundleFile \in DOMAIN archives0
  /\ output = "closed"
  /\ pc = "rmBuild"
  /\ <<"package.json">> \in DOMAIN archives[bundleFile].entries

NumDots(v) == Cardinality({i \in 1..Len(v) : v[i] = DOT})

\* C7: for a manifest whose version has exactly three segments X.Y.Z, the
\* manifest written by prepareVersionedPackage has the version X.Y.r, that
\* is the input up to and including its second dot followed by the revision,
\* the same keys as the input, and the same value under every other key.
C7_StampedVersion ==
  (tool = "packageTool" /\ ScratchFile \in DOMAIN fs) =>
    LET orig == fs0[PackageFile].data
        out == fs[ScratchFile].data
        v == orig.version
    IN  NumDots(v) = 2 =>
          /\ out.version = SubSeq(v, 1, LastIndexOf(v, DOT)) \o revision
          /\ DOMAIN out = DOMAIN orig
          /\ \A k \in DOMAIN orig \ {"version"} : out[k] = orig[k]

C7_Witness ==
  /\ tool = "packageTool"
  /\ ScratchFile \in DOMAIN fs
  /\ fs0[PackageFile].data.version = <<"1", ".", "1", ".", "1">>
  /\ revision = <<"r">>
  /\ fs[ScratchFile].data.version = <<"1", ".", "1", ".", "r">>

\* C8: when the version is absent or has fewer than three segments,
\* prepareVersionedPackage writes no scratch manifest, the run does not go
\* on to read the manifest back, build or archive, and it ends with a
\* non-zero status.
C8_MalformedVersionFails ==
  (/\ tool = "packageTool"
   /\ PackageFile \in DOMAIN fs0
   /\ \/ "version" \notin DOMAIN fs0[PackageFile].data
      \/ NumDots(fs0[PackageFile].data.version) < 2) =>
    /\ ScratchFile \notin DOMAIN fs
    /\ pc \in {"checkProject", "checkSrc", "checkReadme", "checkPackage",
               "prepare", "exited"}
    /\ pc = "exited" => exitCode # 0

C10_ArchiveName ==
  tool = "packageTool" =>
    /\ (buildFolder # <<>> /\ buildFolder \o <<"package.json">> \in DOMAIN fs) =>
         fs[buildFolder \o <<"package.json">>].data.version
           = fs[ScratchFile].data.version
    /\ bundleFile # <<>> =>
         LET sv == fs[ScratchFile].data.version
             nm == fs0[PackageFile].data.name
             k == Len(bundleFile) - (Len(sv) + 5)
         IN  /\ k >= 0 /\ k <= Len(nm)
             /\ (Len(nm) - k = 0) \/ nm[Len(nm) - k] = SLASH
             /\ \A i \in 1..k :
                  /\ bundleFile[i] = nm[Len(nm) - k + i]
                  /\ bundleFile[i] # SLASH
             /\ bundleFile[k + 1] = "-"
             /\ \A i \in 1..Len(sv) :
                  bundleFile[k + 1 + i] = IF sv[i] = DOT THEN "_" ELSE sv[i]
             /\ SubSeq(bundleFile, k + 2 + Len(sv), Len(bundleFile)) = ZIP
             /\ (/\ bundleFile \in DOMAIN archives
                 /\ <<"package.json">> \in DOMAIN archives[bundleFile].entries) =>
                  archives[bundleFile].entries[<<"package.json">>].data.version = sv
             /\ report.written =>
                  /\ report.version = sv
                  /\ report.name = nm
                  /\ report.file = bundleFile

C10_Witness ==
  /\ tool = "packageTool"
  /\ report.written
  /\ report.name = <<"/", "d">>
  /\ report.version = <<"1", ".", "1", ".", "r">>
  /\ report.file = <<"d", "-", "1", "_", "1", "_", "r">> \o ZIP
  /\ archives[bundleFile].entries[<<"package.json">>].data.version
       = <<"1", ".", "1", ".", "r">>

\* C11: a generated revision is the number n with
\* n + 175200000 = floor(Date.now() / 10000), written in decimal and followed
\* by "-dev"; of two generations, those at least 10 seconds apart differ,
\* those in the same 10-second tick are equal, and the number of the later
\* one is not smaller.
C11_GeneratedRevision ==
  /\ \A i \in 1..Len(gens) :
       LET g == gens[i]
           tick == g.number + RevisionOffset - OriginTick
       IN  /\ tick * 10000 <= g.t
           /\ g.t < (tick + 1) * 10000
           /\ g.revision = ToDigits(g.number) \o <<"-", "d", "e", "v">>
  /\ \A i, j \in 1..Len(gens) :
       i < j =>
         LET a == gens[i]
             b == gens[j]
         IN  /\ b.t - a.t >= 10000 => a.revision # b.revision
             /\ (\E k \in 0..(MaxClock \div 10000 + 1) :
                   /\ k * 10000 <= a.t /\ a.t < (k + 1) * 10000
                   /\ k * 10000 <= b.t /\ b.t < (k + 1) * 10000)
                  => a.revision = b.revision
             /\ a.t <= b.t => a.number <= b.number

C11_Witness ==
  /\ Len(gens) = 2
  /\ gens[1].t = 4999
  /\ gens[2].t = 14999
  /\ gens[1].revision = <<"4", "2", "0", "0", "0", "0", "0">> \o DEV
  /\ gens[2].revision = <<"4", "2", "0", "0", "0", "0", "1">> \o DEV

\* C12: the staging directory is removed at most once in a run, and the
\* removal is never issued while the compiler process or a copy operation
\* of the build is still running.
C12_RemovalAfterSiblingsSettle ==
  [][rmCalls' # rmCalls =>
       /\ rmCalls = 0
       /\ tsc # "running"
       /\ \A t \in DOMAIN copies : copies[t] # "pending"]_vars

\* C13: in packageTool the version is stamped before the publish directory
\* is ensured; the archive step starts only after the compiler has closed
\* with status 0 and every copy has completed; the staging directory is
\* removed only after the archive step has returned; the success message is
\* written only after the staging directory has been removed.
C13_StepsGated ==
  tool = "packageTool" =>
    /\ (pc = "mkdtemp" \/ buildFolder # <<>>) =>
         /\ packageFile = ScratchFile
         /\ ScratchFile \in DOMAIN fs
         /\ fs[ScratchFile].data.version
           = revisedProjectVersion(fs0[PackageFile].data.version, revision)
    /\ (BundleStarted \/ bundleFile # <<>> \/ output # "none" \/ archive # "none") =>
         /\ tsc = "resolved"
         /\ tscCode = 0
         /\ \A t \in DOMAIN copies : copies[t] = "ok"
    /\ rmCalls > 0 =>
         /\ archive = "ended"
         /\ output = "closed"
         /\ bundleFile \in DOMAIN archives
    /\ report.written =>
         /\ rmCalls = 1
         /\ buildFolder # <<>>
         /\ buildFolder \notin DOMAIN fs

C13_Witness ==
  /\ tool = "packageTool"
  /\ report.written
  /\ PublishFolder \notin DOMAIN fs0
  /\ PublishFolder \in DOMAIN fs
  /\ tscCode = 0
  /\ \A t \in DOMAIN copies : copies[t] = "ok"
  /\ output = "closed"
  /\ rmCalls = 1

\* C14: the operations build() runs concurrently (the compiler, the copy of
\* the manifest, the copy of the readme, one copy per asset pattern) write
\* pairwise disjoint sets of paths below the staging directory.
C14_DisjointDestinations ==
  tsc # "idle" =>
    \A a, b \in DOMAIN copies \cup {"tsc"} :
      a # b => Targets(fs, tool, a) \cap Targets(fs, tool, b) = {}

\* C15: once the archive writer or the output stream has raised an error,
\* before or after finalize() has resolved, the run is no longer waiting in
\* bundle(): it has ended with a non-zero status (or, in buildTool, is in
\* the finally block on its way to one), no success message is written,
\* bundle() has not returned, and the partial archive file is still there.
C15_StreamErrorAborts ==
  (archive = "errored" \/ output = "errored") =>
    /\ pc \in {"exited", "finally"}
    /\ pc = "finally" => (tool = "buildTool" /\ thrown)
    /\ pc = "exited" => exitCode >= 1
    /\ ~report.written
    /\ ~BundleReturned
    /\ rmCalls > 0 => tool = "buildTool"
    /\ bundleFile \in DOMAIN archives
    /\ ~archives[bundleFile].complete

C15_Witness ==
  /\ output = "errored"
  /\ archive = "ended"
  /\ pc = "exited"
  /\ exitCode = 1
  /\ bundleFile \in DOMAIN archives
  /\ ~archives[bundleFile].complete

C17_NoTemporaryLeft ==
  report.written =>
    /\ buildFolder \notin DOMAIN fs
    /\ ScratchFile \notin DOMAIN fs
    /\ \A p \in DOMAIN fs : IsPrefix(TmpDir, p) => p \in DOMAIN fs0

====
